---- MODULE Spec2Model ----
(***************************************************************************)
(* Model of src/app.py: a Streamlit script that loads three CSV datasets   *)
(* (memoized by st.cache_data), searches customers by name and renders,    *)
(* for every customer found, a profile and the joined order history.       *)
(*                                                                         *)
(* Text is a sequence of one-character strings.  A missing cell (pandas    *)
(* NaN) is the one-element sequence NaN, which is no text of the model.    *)
(* The pandas operations are modelled as pandas 2.2 performs them, the     *)
(* release line current when the script was written.                       *)
(***************************************************************************)
EXTENDS Integers, Sequences, FiniteSets, TLC

VARIABLES disk, cache, loads, parsed,
          customers_df, orders_df, order_details_df,
          search_name, screen

vars == <<disk, cache, loads, parsed, customers_df, orders_df,
          order_details_df, search_name, screen>>

\* ------------------------------------------------------------------------
\* Bounds
\* ------------------------------------------------------------------------
MaxCustomers == 2
MaxQueryLen == 2
MaxOrders == 2
MaxDetails == 3
MaxLoads == 2

Datasets == {"cust", "ordr", "detl"}

\* search_name before st.text_input has run
Unset == <<"unset">>

\* ------------------------------------------------------------------------
\* Text helpers
\* ------------------------------------------------------------------------
NaN == <<"NaN">>

notna(v) == v # NaN

\* str.lower() on the characters of the model
LowerChar(c) == CASE c = "A" -> "a"
                  [] c = "N" -> "n"
                  [] c = "E" -> "e"
                  [] c = "O" -> "o"
                  [] c = "H" -> "h"
                  [] OTHER -> c

Lower(s) == [i \in 1..Len(s) |-> LowerChar(s[i])]

\* str(x) of a cell: float NaN prints as the text "nan"
str(v) == IF v = NaN THEN <<"n", "a", "n">> ELSE v

\* Series.astype(str): every element, NaN included, becomes its str()
astype_str(v) == str(v)

RECURSIVE lstrip(_)
lstrip(s) == IF s # <<>> /\ Head(s) = " " THEN lstrip(Tail(s)) ELSE s

RECURSIVE rstrip(_)
rstrip(s) == IF s # <<>> /\ s[Len(s)] = " "
             THEN rstrip(SubSeq(s, 1, Len(s) - 1)) ELSE s

strip(s) == rstrip(lstrip(s))

\* sep.join(parts)
RECURSIVE join(_, _)
join(sep, parts) ==
  IF parts = <<>> THEN <<>>
  ELSE IF Len(parts) = 1 THEN parts[1]
  ELSE parts[1] \o sep \o join(sep, Tail(parts))

\* variant: the empty parts are kept
truthy_all(parts) == parts

\* [p for p in parts if p]
RECURSIVE truthy(_)
truthy(parts) ==
  IF parts = <<>> THEN <<>>
  ELSE IF Head(parts) # <<>> THEN <<Head(parts)>> \o truthy(Tail(parts))
  ELSE truthy(Tail(parts))

\* ------------------------------------------------------------------------
\* pd.read_csv
\* ------------------------------------------------------------------------
\* the cell texts read_csv turns into NaN (those the model's alphabet spells)
NAValues == { <<>>, <<"n", "a", "n">>, <<"N", "a", "N">>, <<"N", "A">> }

ParseCell(c) == IF c \in NAValues THEN NaN ELSE c

TextCols == {"firstname", "lastname", "billingaddress1", "billingcity",
             "billingstate"}

ParseRow(r) == [c \in DOMAIN r |-> IF c \in TextCols THEN ParseCell(r[c])
                                    ELSE r[c]]

None == [df |-> FALSE, rows |-> <<>>]

NoFile == [exists |-> FALSE, rows |-> <<>>]

File(rows) == [exists |-> TRUE, rows |-> rows]

read_csv(f) == [df |-> TRUE, rows |-> [i \in 1..Len(f.rows) |-> ParseRow(f.rows[i])]]

\* ------------------------------------------------------------------------
\* Series.str.contains(pat, case=False, na=False): re.search with IGNORECASE
\* ------------------------------------------------------------------------
\* re.compile raises re.error: "(" is never closed, "*" has nothing to repeat
\* or repeats a repeat
re_error(pat) ==
  \E i \in 1..Len(pat) :
     \/ pat[i] = "("
     \/ pat[i] = "*" /\ (i = 1 \/ pat[i - 1] \in {"|", "*", "("})

\* the alternatives of a pattern
RECURSIVE Branches(_, _)
Branches(pat, cur) ==
  IF pat = <<>> THEN <<cur>>
  ELSE IF Head(pat) = "|" THEN <<cur>> \o Branches(Tail(pat), <<>>)
  ELSE Branches(Tail(pat), Append(cur, Head(pat)))

\* the items of one alternative: a character, possibly starred
RECURSIVE Atoms(_)
Atoms(b) ==
  IF b = <<>> THEN <<>>
  ELSE IF Len(b) >= 2 /\ b[2] = "*"
       THEN <<[ch |-> b[1], star |-> TRUE]>> \o Atoms(SubSeq(b, 3, Len(b)))
  ELSE <<[ch |-> b[1], star |-> FALSE]>> \o Atoms(Tail(b))

AtomMatches(a, c) == a.ch = "." \/ LowerChar(a.ch) = LowerChar(c)

RECURSIVE MatchFrom(_, _, _, _)
MatchFrom(atoms, k, s, i) ==
  IF k > Len(atoms) THEN TRUE
  ELSE IF atoms[k].star
       THEN \/ MatchFrom(atoms, k + 1, s, i)
            \/ /\ i <= Len(s)
               /\ AtomMatches(atoms[k], s[i])
               /\ MatchFrom(atoms, k, s, i + 1)
  ELSE /\ i <= Len(s)
       /\ AtomMatches(atoms[k], s[i])
       /\ MatchFrom(atoms, k + 1, s, i + 1)

re_search(pat, s) ==
  LET bs == Branches(pat, <<>>) IN
  \E b \in 1..Len(bs) : \E i \in 1..(Len(s) + 1) :
     MatchFrom(Atoms(bs[b]), 1, s, i)

\* one element of the boolean Series; na=False answers for a missing element
contains(v, pat) == IF v = NaN THEN FALSE ELSE re_search(pat, v)

\* ------------------------------------------------------------------------
\* load_data (lines 10-31)
\* ------------------------------------------------------------------------
\* variant: the archive is tried before the plain file
read_file_zipfirst(dsk, d) ==
  IF dsk[d].zip.exists THEN read_csv(dsk[d].zip)
  ELSE IF dsk[d].csv.exists THEN read_csv(dsk[d].csv)
  ELSE None

\* read_file: the plain file first, then the archive with the same stem
read_file(dsk, d) ==
  IF dsk[d].csv.exists THEN read_csv(dsk[d].csv)
  ELSE IF dsk[d].zip.exists THEN read_csv(dsk[d].zip)
  ELSE None

\* the files pd.read_csv is called on by read_file
opened(dsk, d) ==
  IF dsk[d].csv.exists THEN {<<d, "csv">>}
  ELSE IF dsk[d].zip.exists THEN {<<d, "zip">>}
  ELSE {}

load_data(dsk) == [d \in Datasets |-> read_file(dsk, d)]

\* ------------------------------------------------------------------------
\* Search (lines 60-66)
\* ------------------------------------------------------------------------
mask(row, q) ==
  \/ contains(astype_str(row.firstname), q)
  \/ contains(astype_str(row.lastname), q)

\* customers_df[mask]: the positions of the selected rows, in table order
RECURSIVE found_customers(_, _, _)
found_customers(rows, q, i) ==
  IF i > Len(rows) THEN <<>>
  ELSE IF mask(rows[i], q) THEN <<i>> \o found_customers(rows, q, i + 1)
  ELSE found_customers(rows, q, i + 1)

\* ------------------------------------------------------------------------
\* Order history (lines 99-132)
\* ------------------------------------------------------------------------
\* orders_df[orders_df['customerid'] == cust_id]
RECURSIVE cust_orders(_, _)
cust_orders(orders, cust_id) ==
  IF orders = <<>> THEN <<>>
  ELSE IF Head(orders).customerid = cust_id
       THEN <<Head(orders)>> \o cust_orders(Tail(orders), cust_id)
  ELSE cust_orders(Tail(orders), cust_id)

JoinedRow(o, d) ==
  [orderid |-> o.orderid, orderdate |-> o.orderdate,
   totalshippingcost |-> o.totalshippingcost,
   paymentamount |-> o.paymentamount, orderstatus |-> o.orderstatus,
   productname |-> d.productname, quantity |-> d.quantity,
   totalprice |-> d.totalprice]

\* variant: an order is joined to its first line item only
RECURSIVE order_lines_first(_, _)
order_lines_first(o, details) ==
  IF details = <<>> THEN <<>>
  ELSE IF Head(details).orderid = o.orderid
       THEN <<JoinedRow(o, Head(details))>>
  ELSE order_lines_first(o, Tail(details))

\* the line items joined to one order, in line-item order
RECURSIVE order_lines(_, _)
order_lines(o, details) ==
  IF details = <<>> THEN <<>>
  ELSE IF Head(details).orderid = o.orderid
       THEN <<JoinedRow(o, Head(details))>> \o order_lines(o, Tail(details))
  ELSE order_lines(o, Tail(details))

\* variant: the result follows the order of the right table
RECURSIVE line_orders(_, _)
line_orders(d, left) ==
  IF left = <<>> THEN <<>>
  ELSE IF Head(left).orderid = d.orderid
       THEN <<JoinedRow(Head(left), d)>> \o line_orders(d, Tail(left))
  ELSE line_orders(d, Tail(left))

RECURSIVE merge_rightorder(_, _)
merge_rightorder(left, right) ==
  IF right = <<>> THEN <<>>
  ELSE line_orders(Head(right), left) \o merge_rightorder(left, Tail(right))

\* pd.merge(left, right, on='orderid', how='inner'): left order is kept
RECURSIVE merge(_, _)
merge(left, right) ==
  IF left = <<>> THEN <<>>
  ELSE order_lines(Head(left), right) \o merge(Tail(left), right)

\* variant: the labels of quantity and totalprice are exchanged
NewName_swapped(c) == CASE c = "orderdate" -> "Date"
                        [] c = "orderstatus" -> "Status"
                        [] c = "productname" -> "Product"
                        [] c = "quantity" -> "Item Price"
                        [] c = "totalprice" -> "Qty"
                        [] c = "paymentamount" -> "Order Total"
                        [] OTHER -> c

\* history.rename(columns=...)
NewName(c) == CASE c = "orderdate" -> "Date"
                [] c = "orderstatus" -> "Status"
                [] c = "productname" -> "Product"
                [] c = "quantity" -> "Qty"
                [] c = "totalprice" -> "Item Price"
                [] c = "paymentamount" -> "Order Total"
                [] OTHER -> c

rename(r) ==
  [n \in {NewName(c) : c \in DOMAIN r} |->
     r[CHOOSE c \in DOMAIN r : NewName(c) = n]]

\* display_table[[...]]: the columns shown, in this order
DisplayCols == <<"Date", "Status", "Product", "Qty", "Item Price",
                 "Order Total">>

display_row(r) ==
  [k \in 1..Len(DisplayCols) |-> <<DisplayCols[k], rename(r)[DisplayCols[k]]>>]

display_table(history) == [k \in 1..Len(history) |-> display_row(history[k])]

\* ------------------------------------------------------------------------
\* Customer panel (lines 74-132)
\* ------------------------------------------------------------------------
full_name(c) ==
  strip((IF notna(c.firstname) THEN str(c.firstname) ELSE <<>>)
        \o <<" ">>
        \o (IF notna(c.lastname) THEN str(c.lastname) ELSE <<>>))

addr_parts(c) ==
  << IF notna(c.billingaddress1) THEN str(c.billingaddress1) ELSE <<>>,
     IF notna(c.billingcity) THEN str(c.billingcity) ELSE <<>>,
     IF notna(c.billingstate) THEN str(c.billingstate) ELSE <<>> >>

address(c) == join(<<",", " ">>, truthy(addr_parts(c)))

\* variant: an empty join is reported as "no orders"
Panel_merged(i, c, orders, details) ==
  LET co == cust_orders(orders, c.customerid)
      history == merge(co, details)
  IN [index |-> i,
      full_name |-> full_name(c),
      email |-> c.emailaddress,
      phone |-> c.phonenumber,
      address |-> address(c),
      info |-> (co = <<>> \/ history = <<>>),
      header |-> (co # <<>>),
      nodetails |-> FALSE,
      table |-> (co # <<>> /\ history # <<>>),
      rows |-> IF co # <<>> /\ history # <<>>
               THEN display_table(history) ELSE <<>>]

Panel(i, c, orders, details) ==
  LET co == cust_orders(orders, c.customerid)
      history == merge(co, details)
  IN [index |-> i,
      full_name |-> full_name(c),
      email |-> c.emailaddress,
      phone |-> c.phonenumber,
      address |-> address(c),
      info |-> (co = <<>>),
      header |-> (co # <<>>),
      nodetails |-> (co # <<>> /\ history = <<>>),
      table |-> (co # <<>> /\ history # <<>>),
      rows |-> IF co # <<>> /\ history # <<>>
               THEN display_table(history) ELSE <<>>]

\* ------------------------------------------------------------------------
\* One run of the script (lines 33-132)
\* ------------------------------------------------------------------------
Blank == [stage |-> "start", found |-> <<>>, panels |-> <<>>]

Render(cust, ordr, detl, q) ==
  IF q = <<>> THEN [Blank EXCEPT !.stage = "idle"]
  ELSE IF re_error(q) THEN [Blank EXCEPT !.stage = "exception"]
  ELSE LET found == found_customers(cust.rows, q, 1) IN
       IF found = <<>> THEN [Blank EXCEPT !.stage = "warning"]
       ELSE [stage |-> "success",
             found |-> found,
             panels |-> [k \in 1..Len(found) |->
                           Panel(found[k], cust.rows[found[k]],
                                 ordr.rows, detl.rows)]]

\* variant: no memoization
cached_never(c) == FALSE

\* @st.cache_data: the call is answered from the cache once an entry exists
cached(c) == c.loaded

\* variant: "and" in place of "or"
missing_all(value) ==
  value["cust"] = None /\ value["ordr"] = None /\ value["detl"] = None

\* customers_df is None or orders_df is None or order_details_df is None
missing(value) ==
  value["cust"] = None \/ value["ordr"] = None \/ value["detl"] = None

\* the body of load_data runs only when st.cache_data holds no entry
Rerun(q) ==
  /\ cached(cache) \/ loads < MaxLoads
  /\ LET value == IF cached(cache) THEN cache.value ELSE load_data(disk) IN
     /\ cache' = [loaded |-> TRUE, value |-> value]
     /\ loads' = IF cached(cache) THEN loads ELSE loads + 1
     /\ parsed' = IF cached(cache) THEN parsed
                  ELSE parsed \cup UNION {opened(disk, d) : d \in Datasets}
     /\ customers_df' = value["cust"]
     /\ orders_df' = value["ordr"]
     /\ order_details_df' = value["detl"]
     /\ IF missing(value)
        THEN /\ search_name' = Unset
             /\ screen' = [Blank EXCEPT !.stage = "missing"]
        ELSE /\ search_name' = q
             /\ screen' = Render(value["cust"], value["ordr"], value["detl"], q)
  /\ UNCHANGED disk

\* the files change under the running process
PutFile(d, kind, f) ==
  /\ disk[d][kind] # f
  /\ disk' = [disk EXCEPT ![d][kind] = f]
  /\ UNCHANGED <<cache, loads, parsed, customers_df, orders_df,
                 order_details_df, search_name, screen>>

RemoveFile(d, kind) ==
  /\ disk[d][kind].exists
  /\ disk' = [disk EXCEPT ![d][kind] = NoFile]
  /\ UNCHANGED <<cache, loads, parsed, customers_df, orders_df,
                 order_details_df, search_name, screen>>

\* the process starts: nothing cached, nothing rendered
Start(dsk) ==
  /\ disk = dsk
  /\ cache = [loaded |-> FALSE, value |-> [d \in Datasets |-> None]]
  /\ loads = 0
  /\ parsed = {}
  /\ customers_df = None
  /\ orders_df = None
  /\ order_details_df = None
  /\ search_name = Unset
  /\ screen = Blank

\* ------------------------------------------------------------------------
\* Input files
\* ------------------------------------------------------------------------
An == <<"A", "n">>
Elm == <<"E", "l", "m">>
OH == <<"O", "H">>

CustRow(id, fn, ln, a1, city, state) ==
  [customerid |-> id, firstname |-> fn, lastname |-> ln,
   emailaddress |-> 900 + id, phonenumber |-> 950 + id,
   billingaddress1 |-> a1, billingcity |-> city, billingstate |-> state]

\* the i-th order row and the j-th line item: every value names its row
OrderRow(i, oid, cid) ==
  [orderid |-> oid, customerid |-> cid, orderdate |-> 200 + i,
   totalshippingcost |-> 300 + i, paymentamount |-> 400 + i,
   orderstatus |-> 500 + i]

DetailRow(j, oid) ==
  [orderid |-> oid, productname |-> 600 + j, quantity |-> 700 + j,
   totalprice |-> 800 + j]

Kinds == {"csv", "zip"}

OneDisk(c, o, d) ==
  [x \in Datasets |->
     [csv |-> File(IF x = "cust" THEN c ELSE IF x = "ordr" THEN o ELSE d),
      zip |-> NoFile]]

\* --- the whole flow: two versions of every dataset, files come and go ---
FlowFiles(d) ==
  IF d = "cust"
  THEN { File(<<CustRow(1, An, <<>>, Elm, <<>>, OH)>>),
         File(<<CustRow(1, <<"n", "a">>, An, <<>>, <<>>, <<>>),
                CustRow(2, <<>>, <<>>, Elm, Elm, OH)>>) }
  ELSE IF d = "ordr"
  THEN { File(<<OrderRow(1, 10, 1)>>),
         File(<<OrderRow(1, 11, 2), OrderRow(2, 10, 1)>>) }
  ELSE { File(<<DetailRow(1, 10)>>), File(<<>>) }

FlowQueries == { <<>>, <<"a">>, <<"(">> }

Init ==
  \E dsk \in [Datasets -> [csv : {NoFile}, zip : {NoFile}]] : Start(dsk)

Next ==
  \/ \E q \in FlowQueries : Rerun(q)
  \/ \E d \in Datasets, kind \in Kinds : \E f \in FlowFiles(d) :
       PutFile(d, kind, f)
  \/ \E d \in Datasets, kind \in Kinds : RemoveFile(d, kind)

Spec == Init /\ [][Next]_vars

\* The three specifications below follow the first run of a process on every
\* input of a bounded family.

\* --- search: every customers table of at most MaxCustomers rows ---
NameCells == { <<>>, An, <<"n", "a">> }

QueryChars == {"a", "N", ".", "*", "|", "("}

Queries == UNION { [1..n -> QueryChars] : n \in 1..MaxQueryLen }

SearchTables ==
  UNION { { [i \in 1..n |-> CustRow(i, fn[i], ln[i], Elm, <<>>, OH)] :
              fn \in [1..n -> NameCells], ln \in [1..n -> NameCells] } :
          n \in 0..MaxCustomers }

FixedOrders == <<OrderRow(1, 10, 1)>>

FixedDetails == <<DetailRow(1, 10)>>

InitSearch ==
  \E c \in SearchTables : Start(OneDisk(c, FixedOrders, FixedDetails))

NextSearch == \E q \in Queries : screen = Blank /\ Rerun(q)

SpecSearch == InitSearch /\ [][NextSearch]_vars

\* --- search over tables in which every name is present ---
PresentCells == NameCells \ {<<>>}

PresentTables ==
  UNION { { [i \in 1..n |-> CustRow(i, fn[i], ln[i], Elm, <<>>, OH)] :
              fn \in [1..n -> PresentCells], ln \in [1..n -> PresentCells] } :
          n \in 0..MaxCustomers }

InitNames ==
  \E c \in PresentTables : Start(OneDisk(c, FixedOrders, FixedDetails))

NextNames == \E q \in Queries : screen = Blank /\ Rerun(q)

SpecNames == InitNames /\ [][NextNames]_vars

\* --- join: every orders table and every line-items table in the bounds ---
OrderIds == {10, 11}

DetailOrderIds == {10, 11, 12}

CustIds == {1, 2}

OrderTables ==
  UNION { { [i \in 1..n |-> OrderRow(i, oid[i], cid[i])] :
              oid \in [1..n -> OrderIds], cid \in [1..n -> CustIds] } :
          n \in 0..MaxOrders }

DetailTables ==
  UNION { { [j \in 1..n |-> DetailRow(j, oid[j])] :
              oid \in [1..n -> DetailOrderIds] } :
          n \in 0..MaxDetails }

JoinCustomers == << CustRow(1, An, <<>>, Elm, <<>>, OH),
                    CustRow(2, <<"n", "a">>, <<>>, <<>>, <<>>, <<>>) >>

JoinQueries == { <<"a">>, An }

InitJoin ==
  \E o \in OrderTables, d \in DetailTables : Start(OneDisk(JoinCustomers, o, d))

NextJoin == \E q \in JoinQueries : screen = Blank /\ Rerun(q)

SpecJoin == InitJoin /\ [][NextJoin]_vars

\* --- address: every combination of the address cells ---
AddrCells == { <<>>, <<"n", "a", "n">>, Elm, OH,
               <<"n", "a", "n", "t">>, <<"E", ",", " ">> }

AddrQueries == { <<"a">>, <<"n">> }

InitAddr ==
  \E a1 \in AddrCells, city \in AddrCells, state \in AddrCells :
     Start(OneDisk(<<CustRow(1, An, <<>>, a1, city, state)>>,
                   FixedOrders, FixedDetails))

NextAddr == \E q \in AddrQueries : screen = Blank /\ Rerun(q)

SpecAddr == InitAddr /\ [][NextAddr]_vars

\* ------------------------------------------------------------------------
\* Properties
\* ------------------------------------------------------------------------
Range(f) == {f[k] : k \in DOMAIN f}

IsSubstr(q, t) ==
  \E i \in 0..(Len(t) - Len(q)) : SubSeq(t, i + 1, i + Len(q)) = q

StartsWith(t, q) == Len(t) >= Len(q) /\ SubSeq(t, 1, Len(q)) = q

EndsWith(t, q) ==
  Len(t) >= Len(q) /\ SubSeq(t, Len(t) - Len(q) + 1, Len(t)) = q

\* a search has been made in the last run
Searched == search_name # Unset /\ search_name # <<>>

Shown == screen.stage = "success"

PanelIdx == 1..Len(screen.panels)

CustOf(p) == customers_df.rows[p.index]

Orders == orders_df.rows

Details == order_details_df.rows

\* the positions of the orders of a customer, and of the line items of an order
OrdersOf(c) == {i \in 1..Len(Orders) : Orders[i].customerid = c.customerid}

LinesOf(i) == {j \in 1..Len(Details) : Details[j].orderid = Orders[i].orderid}

PairsOf(c) == {<<i, j>> \in (1..Len(Orders)) \X (1..Len(Details)) :
                 i \in OrdersOf(c) /\ j \in LinesOf(i)}

RECURSIVE SumLines(_)
SumLines(S) ==
  IF S = {} THEN 0
  ELSE LET i == CHOOSE x \in S : TRUE
       IN Cardinality(LinesOf(i)) + SumLines(S \ {i})

\* C1: for every non-empty query the customers found are exactly the rows in
\* which the query is a case-insensitive literal substring of a present
\* firstname or lastname, whatever characters the query is made of.
LiteralHit(v) == v # NaN /\ IsSubstr(Lower(search_name), Lower(v))

C1_LiteralSubstringSearch ==
  Searched =>
    /\ screen.stage \in {"warning", "success"}
    /\ Range(screen.found) =
         {i \in 1..Len(customers_df.rows) :
            \/ LiteralHit(customers_df.rows[i].firstname)
            \/ LiteralHit(customers_df.rows[i].lastname)}

\* C2: a customer is found only through a name field that is present; a
\* customer whose two name fields are absent is found by no query.
C2_AbsentNameNeverMatches ==
  Searched =>
    \A k \in 1..Len(screen.found) :
       LET c == customers_df.rows[screen.found[k]] IN
       \/ c.firstname # NaN /\ contains(c.firstname, search_name)
       \/ c.lastname # NaN /\ contains(c.lastname, search_name)

\* C3: the history of a customer has as many rows as the sum, over the orders
\* of that customer, of the line items carrying the order's id.
C3_JoinRowCount ==
  Shown =>
    \A k \in PanelIdx :
       Len(screen.panels[k].rows) = SumLines(OrdersOf(CustOf(screen.panels[k])))

C3_Witness ==
  /\ Shown
  /\ \E k \in PanelIdx :
       LET c == CustOf(screen.panels[k]) IN
       /\ Len(screen.panels[k].rows) >= 2
       /\ \E i \in OrdersOf(c) : Cardinality(LinesOf(i)) >= 2
       /\ \E j \in 1..Len(Details) : \A i \in OrdersOf(c) : j \notin LinesOf(i)

\* C4: every customer shown gets exactly one of "no orders", "orders but no
\* product details" and the table, decided by the orders and the pairs.
C4_ExactlyOneOutcome ==
  Shown =>
    \A k \in PanelIdx :
       LET p == screen.panels[k]
           c == CustOf(p)
       IN /\ Cardinality({x \in {"info", "nodetails", "table"} : p[x]}) = 1
          /\ p.info <=> OrdersOf(c) = {}
          /\ p.nodetails <=> (OrdersOf(c) # {} /\ PairsOf(c) = {})
          /\ p.table <=> PairsOf(c) # {}

C4_Witness ==
  /\ Shown
  /\ \E k \in PanelIdx : screen.panels[k].nodetails
  /\ \E k \in PanelIdx : screen.panels[k].info

\* C5: the load takes, for every dataset, the plain file when it exists
\* (the archive is then not opened), else the archive, else None, and one
\* dataset being absent does not stop the others from loading.
C5_LoaderResolution ==
  [][ (~cache.loaded /\ cache'.loaded) =>
        \A d \in Datasets :
           /\ disk[d].csv.exists =>
                /\ cache'.value[d] = read_csv(disk[d].csv)
                /\ <<d, "csv">> \in parsed'
                /\ <<d, "zip">> \notin parsed'
           /\ (~disk[d].csv.exists /\ disk[d].zip.exists) =>
                /\ cache'.value[d] = read_csv(disk[d].zip)
                /\ <<d, "zip">> \in parsed'
                /\ <<d, "csv">> \notin parsed'
           /\ (~disk[d].csv.exists /\ ~disk[d].zip.exists) =>
                /\ cache'.value[d] = None
                /\ <<d, "zip">> \notin parsed'
                /\ <<d, "csv">> \notin parsed' ]_vars

C5_Witness ==
  /\ cache.loaded
  /\ parsed = {<<"cust", "csv">>, <<"ordr", "zip">>}
  /\ cache.value["detl"] = None
  /\ disk["cust"].zip.exists
  /\ cache.value["cust"] = read_csv(disk["cust"].csv)
  /\ cache.value["cust"] # read_csv(disk["cust"].zip)

\* C6: when a dataset is missing the run shows the missing-data message and
\* nothing else: no query is read, no search, no result; with the three
\* datasets present the message is not shown.
C6_MissingHalts ==
  cache.loaded =>
    /\ (\E d \in Datasets : cache.value[d] = None) =>
         /\ screen.stage = "missing"
         /\ search_name = Unset
         /\ screen.found = <<>>
         /\ screen.panels = <<>>
    /\ (\A d \in Datasets : cache.value[d] # None) => screen.stage # "missing"

C6_Witness ==
  /\ screen.stage = "missing"
  /\ cache.value["cust"] # None
  /\ cache.value["ordr"] # None
  /\ \A d \in Datasets : disk[d].csv.exists

\* C7: the files are read by the first run only; every later run sees the
\* tables (or the None) of the first run, whatever happened to the files.
C7_LoadedOnce ==
  [][ /\ loads' <= 1
      /\ cache'.loaded => loads' = 1
      /\ cache.loaded =>
           /\ cache' = cache
           /\ parsed' = parsed
           /\ <<customers_df', orders_df', order_details_df'>> =
                <<customers_df, orders_df, order_details_df>> ]_vars

C7_Witness ==
  /\ loads = 1
  /\ screen.stage = "success"
  /\ customers_df # read_file(disk, "cust")
  /\ \E d \in Datasets : ~disk[d].csv.exists /\ ~disk[d].zip.exists

\* C8 as stated: the address is the present, non-empty members joined with
\* ", ", never starts or ends with a separator, never holds two separators
\* in a row, never holds the text "nan", and is empty when no member is kept.
Sep == <<",", " ">>

NanText == <<"n", "a", "n">>

RECURSIVE Kept(_)
Kept(ms) ==
  IF ms = <<>> THEN <<>>
  ELSE IF Head(ms) # NaN /\ Head(ms) # <<>> THEN <<Head(ms)>> \o Kept(Tail(ms))
  ELSE Kept(Tail(ms))

Members(c) == Kept(<<c.billingaddress1, c.billingcity, c.billingstate>>)

Joined(ms) ==
  CASE Len(ms) = 0 -> <<>>
    [] Len(ms) = 1 -> ms[1]
    [] Len(ms) = 2 -> ms[1] \o Sep \o ms[2]
    [] Len(ms) = 3 -> ms[1] \o Sep \o ms[2] \o Sep \o ms[3]

C8_AddressAsClaimed ==
  Shown =>
    \A k \in PanelIdx :
       LET a == screen.panels[k].address
           ms == Members(CustOf(screen.panels[k]))
       IN /\ a = Joined(ms)
          /\ ~StartsWith(a, Sep)
          /\ ~EndsWith(a, Sep)
          /\ ~IsSubstr(Sep \o Sep, a)
          /\ ~IsSubstr(NanText, a)
          /\ ms = <<>> => a = <<>>

\* C8 amended: the address is the present, non-empty members joined with
\* ", "; a skipped member leaves neither text nor separator; a leading or
\* trailing separator, two separators in a row or the text "nan" appear only
\* where the text of a kept member holds them.
C8_AddressJoin ==
  Shown =>
    \A k \in PanelIdx :
       LET a == screen.panels[k].address
           ms == Members(CustOf(screen.panels[k]))
       IN /\ a = Joined(ms)
          /\ ms = <<>> => a = <<>>
          /\ StartsWith(a, Sep) => StartsWith(ms[1], Sep)
          /\ EndsWith(a, Sep) => EndsWith(ms[Len(ms)], Sep)
          /\ IsSubstr(Sep \o Sep, a) => \E m \in Range(ms) : IsSubstr(Sep, m)
          /\ IsSubstr(NanText, a) => \E m \in Range(ms) : IsSubstr(NanText, m)

C8_Witness ==
  /\ Shown
  /\ \E k \in PanelIdx :
       LET c == CustOf(screen.panels[k]) IN
       /\ c.billingaddress1 = Elm
       /\ c.billingcity = NaN
       /\ c.billingstate = OH
       /\ screen.panels[k].address = <<"E", "l", "m", ",", " ", "O", "H">>

\* C9: every row of a history table is the six columns Date, Status,
\* Product, Qty, Item Price, Order Total, in this order, taken from one order
\* of the customer and one line item carrying that order's id.
C9_HistoryColumns ==
  Shown =>
    \A k \in PanelIdx :
       LET p == screen.panels[k] IN
       \A n \in 1..Len(p.rows) :
          \E <<i, j>> \in PairsOf(CustOf(p)) :
             p.rows[n] = << <<"Date", Orders[i].orderdate>>,
                            <<"Status", Orders[i].orderstatus>>,
                            <<"Product", Details[j].productname>>,
                            <<"Qty", Details[j].quantity>>,
                            <<"Item Price", Details[j].totalprice>>,
                            <<"Order Total", Orders[i].paymentamount>> >>

C9_Witness ==
  /\ Shown
  /\ \E k \in PanelIdx :
       LET c == CustOf(screen.panels[k]) IN
       /\ screen.panels[k].rows # <<>>
       /\ \E i \in 1..Len(Orders) : i \notin OrdersOf(c) /\ LinesOf(i) # {}

\* C10: the rows of a history follow the orders of the customer in table
\* order and, within one order, its line items in table order.
Before(a, b) == a[1] < b[1] \/ (a[1] = b[1] /\ a[2] < b[2])

Rank(S, a) == Cardinality({b \in S : Before(b, a)}) + 1

C10_SourceOrder ==
  Shown =>
    \A k \in PanelIdx :
       LET p == screen.panels[k]
           S == PairsOf(CustOf(p))
       IN /\ Len(p.rows) = Cardinality(S)
          /\ \A a \in S :
               /\ p.rows[Rank(S, a)][1][2] = Orders[a[1]].orderdate
               /\ p.rows[Rank(S, a)][3][2] = Details[a[2]].productname

C10_Witness ==
  /\ Shown
  /\ \E k \in PanelIdx :
       LET S == PairsOf(CustOf(screen.panels[k])) IN
       /\ Len(screen.panels[k].rows) >= 3
       /\ \E a \in S, b \in S : a[1] < b[1] /\ b[2] < a[2]

====
